---- MODULE Spec2Model ----
(***************************************************************************)
(* Model of the RF transform and circle engine of rosek86/smith:          *)
(* SmithConstantCircle (src/src/index.ts) and the readouts of Smith       *)
(* (src/src/Smith.ts) that are built on it.                                *)
(*                                                                         *)
(* Numbers.  The engine computes on JavaScript numbers.  They are modelled *)
(* in exact arithmetic: a number is NaN, +Infinity, -Infinity or a finite  *)
(* value a + b*sqrt(m) with a, b rational and m a square-free natural      *)
(* number (m = 1 and b = 0 for a rational value).  Division by zero,       *)
(* the square root of a negative number and arithmetic on Infinity and NaN *)
(* follow IEEE 754 as JavaScript does; rounding error is not modelled, and *)
(* zero is +0.  Integers wider than TLC's are kept as sequences of limbs.  *)
(***************************************************************************)
EXTENDS Integers, Sequences, FiniteSets, TLC

\* ------------------------------------------------------------------------
\* Natural numbers of any width: little-endian sequences of limbs, no high
\* zero limb, <<>> for 0.
Base == 100 * 100

RECURSIVE NNormAt(_, _)
NNormAt(s, n) ==
  IF n = 0 THEN <<>>
  ELSE IF s[n] = 0 THEN NNormAt(s, n - 1) ELSE SubSeq(s, 1, n)

NNorm(s) == NNormAt(s, Len(s))

RECURSIVE NFromInt(_)
NFromInt(n) == IF n = 0 THEN <<>> ELSE <<n % Base>> \o NFromInt(n \div Base)

RECURSIVE NToIntAt(_, _)
NToIntAt(s, i) == IF i > Len(s) THEN 0 ELSE s[i] + Base * NToIntAt(s, i + 1)

NToInt(s) == NToIntAt(s, 1)

Limb(s, i) == IF i <= Len(s) THEN s[i] ELSE 0

RECURSIVE NAddC(_, _, _, _)
NAddC(a, b, i, c) ==
  IF i > Len(a) /\ i > Len(b) THEN (IF c = 0 THEN <<>> ELSE <<c>>)
  ELSE LET t == Limb(a, i) + Limb(b, i) + c
       IN  <<t % Base>> \o NAddC(a, b, i + 1, t \div Base)

NAdd(a, b) == NAddC(a, b, 1, 0)

RECURSIVE NSubC(_, _, _, _)
NSubC(a, b, i, br) ==
  IF i > Len(a) THEN <<>>
  ELSE LET t == Limb(a, i) - Limb(b, i) - br
       IN  IF t < 0 THEN <<t + Base>> \o NSubC(a, b, i + 1, 1)
           ELSE <<t>> \o NSubC(a, b, i + 1, 0)

\* a - b for a >= b
NSub(a, b) == NNorm(NSubC(a, b, 1, 0))

RECURSIVE NCmpAt(_, _, _)
NCmpAt(a, b, i) ==
  IF i = 0 THEN 0
  ELSE IF a[i] # b[i] THEN (IF a[i] < b[i] THEN -1 ELSE 1)
  ELSE NCmpAt(a, b, i - 1)

\* -1, 0, 1 as a < b, a = b, a > b
NCmp(a, b) ==
  IF Len(a) # Len(b) THEN (IF Len(a) < Len(b) THEN -1 ELSE 1)
  ELSE NCmpAt(a, b, Len(a))

RECURSIVE NMulSmall(_, _, _, _)
NMulSmall(a, k, i, c) ==
  IF i > Len(a) THEN (IF c = 0 THEN <<>> ELSE <<c>>)
  ELSE LET t == a[i] * k + c
       IN  <<t % Base>> \o NMulSmall(a, k, i + 1, t \div Base)

RECURSIVE NMulAt(_, _, _)
NMulAt(a, b, j) ==
  IF j > Len(b) THEN <<>>
  ELSE NAdd(NMulSmall(a, b[j], 1, 0), <<0>> \o NMulAt(a, b, j + 1))

NMul(a, b) == IF a = <<>> \/ b = <<>> THEN <<>> ELSE NNorm(NMulAt(a, b, 1))

\* the largest t in lo .. hi-1 with t * b <= rest, by bisection
RECURSIVE NDigit(_, _, _, _)
NDigit(rest, b, lo, hi) ==
  IF hi - lo = 1 THEN lo
  ELSE LET mid == (lo + hi) \div 2
       IN  IF NCmp(NMulSmall(b, mid, 1, 0), rest) <= 0
           THEN NDigit(rest, b, mid, hi) ELSE NDigit(rest, b, lo, mid)

\* quotient and remainder of a by b > 0, one limb of the quotient at a time
RECURSIVE NDivMod(_, _)
NDivMod(a, b) ==
  IF NCmp(a, b) < 0 THEN [quo |-> <<>>, rem |-> a]
  ELSE LET h == NDivMod(a, <<0>> \o b)
           t == NDigit(h.rem, b, 0, Base)
       IN  [quo |-> NNorm(<<t>> \o h.quo),
            rem |-> IF t = 0 THEN h.rem ELSE NSub(h.rem, NMulSmall(b, t, 1, 0))]

RECURSIVE NGcd(_, _)
NGcd(a, b) == IF b = <<>> THEN a ELSE NGcd(b, NDivMod(a, b).rem)

\* ------------------------------------------------------------------------
\* Rationals are records of numerator, sign and denominator in lowest terms,
\* so that equal values are equal records.  JavaScript numbers are NaN,
\* +-Infinity, or the finite value a + b*sqrt(m) in exact arithmetic, a and b
\* rational, m square-free (m = 1 iff b = 0).  Zero is +0; rounding is not
\* modelled.
RZero == [n |-> <<>>, neg |-> FALSE, d |-> <<1>>]
ROne  == [n |-> <<1>>, neg |-> FALSE, d |-> <<1>>]

RSign(x) == IF x.n = <<>> THEN 0 ELSE IF x.neg THEN -1 ELSE 1
RNeg(x)  == IF x.n = <<>> THEN x ELSE [x EXCEPT !.neg = ~x.neg]

NaN    == [a |-> RZero, b |-> RZero, k |-> "nan", m |-> 1]
PosInf == [a |-> ROne, b |-> RZero, k |-> "inf", m |-> 1]
NegInf == [a |-> [n |-> <<1>>, neg |-> TRUE, d |-> <<1>>], b |-> RZero, k |-> "inf", m |-> 1]

InfOf(s) == IF s < 0 THEN NegInf ELSE PosInf

IsNaN(x)      == x.k = "nan"
IsFinite(x)   == x.k = "fin"
IsRational(x) == x.k = "fin" /\ x.b = RZero

\* An operation outside the modelled fragment (a sum of two different
\* irrational square roots) has no value: evaluating it stops the check.
Unsupported == CHOOSE u \in {} : TRUE

RECURSIVE Gcd(_, _)
Gcd(p, q) == IF q = 0 THEN p ELSE Gcd(q, p % q)

\* the largest s with s*s dividing n, for 1 <= n
SquarePart(n) ==
  LET S == {s \in 1 .. (IF n < 1000 THEN n ELSE 1000) : s * s <= n /\ n % (s * s) = 0}
  IN  CHOOSE s \in S : \A t \in S : t <= s

\* The operations on rationals and numbers are the cases of one recursive
\* operator, Arith; each is named by the operator that applies it.
RECURSIVE Arith(_, _)

\* the rational neg0 n0/d0 in lowest terms
RatMake(neg0, n0, d0) == Arith("RatMake", <<neg0, n0, d0>>)
\* the rational p/q of two TLC integers, q > 0
Rat(p, q)    == Arith("Rat", <<p, q>>)
RAdd(x, y)   == Arith("RAdd", <<x, y>>)
RSub(x, y)   == Arith("RAdd", <<x, RNeg(y)>>)
RMul(x, y)   == Arith("RMul", <<x, y>>)
\* x / y for y # 0
RDiv(x, y)   == Arith("RDiv", <<x, y>>)
\* the finite number a + b*sqrt(m), normalised
Fin(a, b, m) == Arith("Fin", <<a, b, m>>)
\* the number p/q of two TLC integers, q > 0
Num(p, q)    == Arith("Num", <<p, q>>)
\* the sign -1, 0, 1 of a finite or infinite number
Sign(x)      == Arith("Sign", <<x>>)
Neg(x)       == Arith("Neg", <<x>>)
Add(x, y)    == Arith("Add", <<x, y>>)
Sub(x, y)    == Arith("Sub", <<x, y>>)
Mul(x, y)    == Arith("Mul", <<x, y>>)
\* 1 / y for a finite y # 0
Inverse(y)   == Arith("Inverse", <<y>>)
Div(x, y)    == Arith("Div", <<x, y>>)
Abs(x)       == Arith("Abs", <<x>>)
\* x < y and x <= y as JavaScript compares: false when either is NaN
Lt(x, y)     == Arith("Lt", <<x, y>>)
Le(x, y)     == Arith("Le", <<x, y>>)
\* Math.sqrt: NaN below zero, exact otherwise
Sqrt(x)      == Arith("Sqrt", <<x>>)

Arith(op, arg) ==
  LET x == arg[1]
      y == arg[2]
  IN
  CASE op = "RatMake" ->
         LET neg == arg[1]
             n   == arg[2]
             d   == arg[3]
             g   == NGcd(n, d)
         IN  IF n = <<>> THEN RZero
             ELSE IF g = <<1>> THEN [n |-> n, neg |-> neg, d |-> d]
             ELSE [n |-> NDivMod(n, g).quo, neg |-> neg, d |-> NDivMod(d, g).quo]
    [] op = "RMul" ->
         RatMake(x.neg # y.neg, NMul(x.n, y.n), NMul(x.d, y.d))
    [] op = "RAdd" ->
         LET xn == NMul(x.n, y.d)
             yn == NMul(y.n, x.d)
             d  == NMul(x.d, y.d)
         IN  IF x.neg = y.neg THEN RatMake(x.neg, NAdd(xn, yn), d)
             ELSE IF NCmp(xn, yn) >= 0 THEN RatMake(x.neg, NSub(xn, yn), d)
             ELSE RatMake(y.neg, NSub(yn, xn), d)
    [] op = "RDiv" ->
         RatMake(x.neg # y.neg, NMul(x.n, y.d), NMul(x.d, y.n))
    [] op = "Rat" ->
         RatMake(x < 0, NFromInt(IF x < 0 THEN -x ELSE x), NFromInt(y))
    [] op = "Fin" ->
         LET a == arg[1]
             b == arg[2]
             m == arg[3]
         IN  IF b = RZero \/ m = 1
             THEN [a |-> RAdd(a, b), b |-> RZero, k |-> "fin", m |-> 1]
             ELSE [a |-> a, b |-> b, k |-> "fin", m |-> m]
    [] op = "Num" ->
         Fin(Rat(x, y), RZero, 1)
    [] op = "Sign" ->
         LET sa == RSign(x.a)
             sb == RSign(x.b)
         IN  IF sb = 0 THEN sa
             ELSE IF sa = 0 \/ sa = sb THEN sb
             ELSE sa * RSign(RSub(RMul(x.a, x.a), RMul(RMul(x.b, x.b), Rat(x.m, 1))))
    [] op = "Neg" ->
         IF x.k = "nan" THEN NaN
         ELSE IF x.k = "inf" THEN InfOf(-Sign(x))
         ELSE [x EXCEPT !.a = RNeg(x.a), !.b = RNeg(x.b)]
    [] op = "Add" ->
         IF x.k = "nan" \/ y.k = "nan" THEN NaN
         ELSE IF x.k = "inf" THEN (IF y.k = "inf" /\ Sign(y) # Sign(x) THEN NaN ELSE x)
         ELSE IF y.k = "inf" THEN y
         ELSE IF x.b = RZero THEN Fin(RAdd(x.a, y.a), y.b, y.m)
         ELSE IF y.b = RZero THEN Fin(RAdd(x.a, y.a), x.b, x.m)
         ELSE IF x.m = y.m THEN Fin(RAdd(x.a, y.a), RAdd(x.b, y.b), x.m)
         ELSE Unsupported
    [] op = "Sub" ->
         Add(x, Neg(y))
    [] op = "Mul" ->
         IF x.k = "nan" \/ y.k = "nan" THEN NaN
         ELSE IF x.k = "inf" \/ y.k = "inf"
              THEN (IF Sign(x) = 0 \/ Sign(y) = 0 THEN NaN ELSE InfOf(Sign(x) * Sign(y)))
         ELSE IF x.b = RZero THEN Fin(RMul(x.a, y.a), RMul(x.a, y.b), y.m)
         ELSE IF y.b = RZero THEN Fin(RMul(x.a, y.a), RMul(x.b, y.a), x.m)
         ELSE IF x.m = y.m
              THEN Fin(RAdd(RMul(x.a, y.a), RMul(RMul(x.b, y.b), Rat(x.m, 1))),
                       RAdd(RMul(x.a, y.b), RMul(x.b, y.a)), x.m)
         ELSE IF x.a = RZero /\ y.a = RZero
              THEN LET g == Gcd(x.m, y.m)
                   IN  Fin(RZero, RMul(RMul(x.b, y.b), Rat(g, 1)),
                           (x.m \div g) * (y.m \div g))
         ELSE Unsupported
    [] op = "Inverse" ->
         IF x.b = RZero THEN Fin(RDiv(ROne, x.a), RZero, 1)
         ELSE LET n == RSub(RMul(x.a, x.a), RMul(RMul(x.b, x.b), Rat(x.m, 1)))
              IN  Fin(RDiv(x.a, n), RNeg(RDiv(x.b, n)), x.m)
    [] op = "Div" ->
         IF x.k = "nan" \/ y.k = "nan" THEN NaN
         ELSE IF y.k = "inf" THEN (IF x.k = "inf" THEN NaN ELSE Num(0, 1))
         ELSE IF Sign(y) = 0 THEN (IF Sign(x) = 0 THEN NaN ELSE InfOf(Sign(x)))
         ELSE IF x.k = "inf" THEN InfOf(Sign(x) * Sign(y))
         ELSE Mul(x, Inverse(y))
    [] op = "Abs" ->
         IF x.k = "nan" THEN NaN ELSE IF Sign(x) < 0 THEN Neg(x) ELSE x
    [] op = "Lt" ->
         /\ x.k # "nan" /\ y.k # "nan"
         /\ IF x.k = "inf" THEN Sign(x) < 0 /\ ~(y.k = "inf" /\ Sign(y) < 0)
            ELSE IF y.k = "inf" THEN Sign(y) > 0
            ELSE Sign(Sub(x, y)) < 0
    [] op = "Le" ->
         /\ x.k # "nan" /\ y.k # "nan"
         /\ IF x.k = "inf" THEN Sign(x) < 0 \/ (y.k = "inf" /\ Sign(y) > 0)
            ELSE IF y.k = "inf" THEN Sign(y) > 0
            ELSE Sign(Sub(x, y)) <= 0
    [] op = "Sqrt" ->
         IF x.k = "nan" THEN NaN
         ELSE IF Sign(x) < 0 THEN NaN
         ELSE IF x.k = "inf" THEN PosInf
         ELSE IF x.b # RZero \/ Len(x.a.n) > 1 \/ Len(x.a.d) > 1 THEN Unsupported
         ELSE IF Sign(x) = 0 THEN x
         ELSE LET n  == NToInt(x.a.n)
                  d  == NToInt(x.a.d)
                  sn == SquarePart(n)
                  sd == SquarePart(d)
                  md == d \div (sd * sd)
              IN  Fin(RZero, Rat(sn, sd * md), (n \div (sn * sn)) * md)

\* the numbers 0, 1, 2 that the engine's formulas use as literals
Zero == [a |-> RZero, b |-> RZero, k |-> "fin", m |-> 1]
One  == [a |-> ROne, b |-> RZero, k |-> "fin", m |-> 1]
Two  == [a |-> [n |-> <<2>>, neg |-> FALSE, d |-> <<1>>], b |-> RZero, k |-> "fin", m |-> 1]

\* ------------------------------------------------------------------------
\* Optional results: undefined / null, or a value.
Undefined == [def |-> FALSE, none |-> "undefined"]
Null      == [def |-> FALSE, none |-> "null"]
Some(v)   == [def |-> TRUE, v |-> v]

\* ------------------------------------------------------------------------
\* The Complex value type (./complex/Complex, specified in sections 3, 4.1).
ComplexFrom(re, im) == [real |-> re, imag |-> im]
ComplexAbs(c)       == Sqrt(Add(Mul(c.real, c.real), Mul(c.imag, c.imag)))
ComplexAdd(c, e)    == ComplexFrom(Add(c.real, e.real), Add(c.imag, e.imag))
ComplexMulNum(c, x) == ComplexFrom(Mul(c.real, x), Mul(c.imag, x))
ComplexDivNum(c, x) == ComplexFrom(Div(c.real, x), Div(c.imag, x))

\* ------------------------------------------------------------------------
\* SmithConstantCircle
epsilon ==
  [a |-> [n |-> <<1>>, neg |-> FALSE, d |-> <<0, 0, 100>>], b |-> RZero, k |-> "fin", m |-> 1]

DefaultZ0 == 50

\* Variants of operations, each with one fault, used to see that a property
\* depends on the operation it speaks of.

\* rflCoeffToImpedance with the guard |d| <= epsilon in place of |d| < epsilon
rflCoeffToImpedanceClosedGuard(c) ==
  LET gr == c.real
      gi == c.imag
      d  == Add(Mul(Sub(One, gr), Sub(One, gr)), Mul(gi, gi))
  IN  IF Le(Abs(d), epsilon) THEN Undefined
      ELSE Some(ComplexFrom(
             Div(Sub(Sub(One, Mul(gr, gr)), Mul(gi, gi)), d),
             Div(Mul(Two, gi), d)))

\* impedanceToRflCoeff with the sign of the imaginary part of its admittance twin
impedanceToRflCoeffNegImag(c) ==
  LET zr == c.real
      zi == c.imag
      d  == Add(Mul(Add(zr, One), Add(zr, One)), Mul(zi, zi))
  IN  IF Lt(Abs(d), epsilon) THEN Undefined
      ELSE Some(ComplexFrom(
             Div(Sub(Add(Mul(zr, zr), Mul(zi, zi)), One), d),
             Div(Mul(Neg(Two), zi), d)))

\* admittanceToRflCoeff with the sign of the imaginary part of its impedance twin
admittanceToRflCoeffPosImag(c) ==
  LET yr == c.real
      yi == c.imag
      d  == Add(Mul(Add(yr, One), Add(yr, One)), Mul(yi, yi))
  IN  IF Lt(Abs(d), epsilon) THEN Undefined
      ELSE Some(ComplexFrom(
             Div(Sub(Sub(One, Mul(yr, yr)), Mul(yi, yi)), d),
             Div(Mul(Two, yi), d)))

\* circleCircleIntersection with the second point mirrored in x only
circleCircleIntersectionHalfMirror(c1, c2) ==
  LET dl   == Sqrt(Add(Mul(Sub(c2.p[1], c1.p[1]), Sub(c2.p[1], c1.p[1])),
                       Mul(Sub(c2.p[2], c1.p[2]), Sub(c2.p[2], c1.p[2]))))
      cosA == Div(Sub(Add(Mul(dl, dl), Mul(c1.r, c1.r)), Mul(c2.r, c2.r)),
                  Mul(Mul(Two, dl), c1.r))
      sinA == Sqrt(Sub(One, Mul(cosA, cosA)))
      vpx  == Div(Mul(Sub(c2.p[1], c1.p[1]), c1.r), dl)
      vpy  == Div(Mul(Sub(c2.p[2], c1.p[2]), c1.r), dl)
  IN  << <<Add(Sub(Mul(vpx, cosA), Mul(vpy, sinA)), c1.p[1]),
           Add(Add(Mul(vpx, sinA), Mul(vpy, cosA)), c1.p[2])>>,
         <<Add(Add(Mul(vpx, cosA), Mul(vpy, sinA)), c1.p[1]),
           Add(Add(Mul(vpy, cosA), Mul(vpx, sinA)), c1.p[2])>> >>

\* swrToRflCoeffEOrI with numerator and denominator exchanged
swrToRflCoeffEOrIInverted(swr) == Div(Add(swr, One), Sub(swr, One))

rflCoeffToImpedance(c) ==
  LET gr == c.real
      gi == c.imag
      d  == Add(Mul(Sub(One, gr), Sub(One, gr)), Mul(gi, gi))
  IN  IF Lt(Abs(d), epsilon) THEN Undefined
      ELSE Some(ComplexFrom(
             Div(Sub(Sub(One, Mul(gr, gr)), Mul(gi, gi)), d),
             Div(Mul(Two, gi), d)))

impedanceToRflCoeff(c) ==
  LET zr == c.real
      zi == c.imag
      d  == Add(Mul(Add(zr, One), Add(zr, One)), Mul(zi, zi))
  IN  IF Lt(Abs(d), epsilon) THEN Undefined
      ELSE Some(ComplexFrom(
             Div(Sub(Add(Mul(zr, zr), Mul(zi, zi)), One), d),
             Div(Mul(Two, zi), d)))

rflCoeffToAdmittance(c) ==
  LET gr == c.real
      gi == c.imag
      d  == Add(Mul(Add(gr, One), Add(gr, One)), Mul(gi, gi))
  IN  IF Lt(Abs(d), epsilon) THEN Undefined
      ELSE Some(ComplexFrom(
             Div(Sub(Sub(One, Mul(gr, gr)), Mul(gi, gi)), d),
             Div(Mul(Neg(Two), gi), d)))

admittanceToRflCoeff(c) ==
  LET yr == c.real
      yi == c.imag
      d  == Add(Mul(Add(yr, One), Add(yr, One)), Mul(yi, yi))
  IN  IF Lt(Abs(d), epsilon) THEN Undefined
      ELSE Some(ComplexFrom(
             Div(Sub(Sub(One, Mul(yr, yr)), Mul(yi, yi)), d),
             Div(Mul(Neg(Two), yi), d)))

\* Circle: center p = <<x, y>> and radius r
resistanceCircle(n) ==
  [p |-> <<Div(n, Add(n, One)), Zero>>, r |-> Div(One, Add(n, One))]

reactanceCircle(n) ==
  [p |-> <<One, Div(One, n)>>, r |-> Abs(Div(One, n))]

conductanceCircle(n) ==
  [p |-> <<Div(Neg(n), Add(n, One)), Zero>>, r |-> Div(One, Add(n, One))]

susceptanceCircle(n) ==
  [p |-> <<Neg(One), Div(Neg(One), n)>>, r |-> Abs(Div(One, n))]

constQCircle(q) ==
  [p |-> <<Zero, Div(One, q)>>,
   r |-> Sqrt(Add(One, Div(One, Mul(q, q))))]

rflCoeffToSwr(rc) ==
  LET gamma == ComplexAbs(rc)
  IN  Div(Add(One, gamma), Sub(One, gamma))

swrToRflCoeffEOrI(swr) == Div(Sub(swr, One), Add(swr, One))

rflCoeffToQ(rc) ==
  LET impedance == rflCoeffToImpedance(rc)
  IN  IF ~impedance.def THEN Undefined
      ELSE Some(Abs(Div(impedance.v.imag, impedance.v.real)))

circleCircleIntersection(c1, c2) ==
  LET dl   == Sqrt(Add(Mul(Sub(c2.p[1], c1.p[1]), Sub(c2.p[1], c1.p[1])),
                       Mul(Sub(c2.p[2], c1.p[2]), Sub(c2.p[2], c1.p[2]))))
      cosA == Div(Sub(Add(Mul(dl, dl), Mul(c1.r, c1.r)), Mul(c2.r, c2.r)),
                  Mul(Mul(Two, dl), c1.r))
      sinA == Sqrt(Sub(One, Mul(cosA, cosA)))
      vpx  == Div(Mul(Sub(c2.p[1], c1.p[1]), c1.r), dl)
      vpy  == Div(Mul(Sub(c2.p[2], c1.p[2]), c1.r), dl)
  IN  << <<Add(Sub(Mul(vpx, cosA), Mul(vpy, sinA)), c1.p[1]),
           Add(Add(Mul(vpx, sinA), Mul(vpy, cosA)), c1.p[2])>>,
         <<Add(Add(Mul(vpx, cosA), Mul(vpy, sinA)), c1.p[1]),
           Add(Sub(Mul(vpy, cosA), Mul(vpx, sinA)), c1.p[2])>> >>

isPointWithinCircle(p, c) ==
  Le(Add(Mul(Sub(p[1], c.p[1]), Sub(p[1], c.p[1])),
         Mul(Sub(p[2], c.p[2]), Sub(p[2], c.p[2]))),
     Mul(c.r, c.r))

SpeedOfLight == 299792458

waveLengthFromFrequency(frequency) == Div(Num(SpeedOfLight, 1), frequency)

frequencyFromWaveLength(waveLength) == Mul(Num(SpeedOfLight, 1), waveLength)

\* A value v / pi: the quotients by Math.PI keep pi as a symbol.
OverPi(v) == [overPi |-> v]

reactanceToCapacitance(x, f) ==
  IF Le(Zero, x) THEN Null
  ELSE Some(OverPi(Div(Neg(One), Mul(Mul(Two, f), x))))

reactanceToInductance(x, f) ==
  IF Le(x, Zero) THEN Null
  ELSE Some(OverPi(Div(x, Mul(Two, f))))

\* Variants of the operations that read Z0, each with one fault.

\* normalize dividing by the default Z0 in place of the current one
normalizeDefaultZ0(c, z0) == ComplexDivNum(c, Num(DefaultZ0, 1))

\* addImpedance starting from the admittance of rc in place of its impedance
addImpedanceFromAdmittance(rc, imp, z0) ==
  LET Z == rflCoeffToAdmittance(rc)
  IN  IF Z = Undefined THEN Undefined
      ELSE impedanceToRflCoeff(ComplexAdd(Z.v, ComplexDivNum(imp, z0)))

\* The operations that read this.Z0 take its current value as z0.
normalize(c, z0) == ComplexDivNum(c, z0)

denormalize(c, z0) == ComplexMulNum(c, z0)

addImpedance(rc, imp, z0) ==
  LET Z == rflCoeffToImpedance(rc)
  IN  IF Z = Undefined THEN Undefined
      ELSE impedanceToRflCoeff(ComplexAdd(Z.v, ComplexDivNum(imp, z0)))

addAdmittance(rc, adm, z0) ==
  LET Y == rflCoeffToAdmittance(rc)
  IN  IF Y = Undefined THEN Undefined
      ELSE admittanceToRflCoeff(ComplexAdd(Y.v, ComplexMulNum(adm, z0)))

\* ------------------------------------------------------------------------
\* Smith: the readouts built on its private engine `calcs`
SmithZ0 == 50

\* calcs.reflectionCoefficientToImpedance on a Point <<x, y>>
reflectionCoefficientToImpedance(p) ==
  LET z == rflCoeffToImpedance(ComplexFrom(p[1], p[2]))
  IN  IF z.def THEN Some(<<z.v.real, z.v.imag>>) ELSE Undefined

\* The string formatNumber(val) + unit is kept as the pair of val and unit.
getReactanceComponentValue(p, f) ==
  LET z == reflectionCoefficientToImpedance(p)
  IN  IF ~z.def THEN [text |-> "Undefined"]
      ELSE LET x == Mul(z.v[2], Num(SmithZ0, 1))
           IN  IF Lt(x, Zero)
               THEN [text |-> "F",
                     val  |-> OverPi(Div(One, Mul(Mul(Two, f), Neg(x))))]
               ELSE [text |-> "H", val |-> OverPi(Div(x, Mul(Two, f)))]

getQ(rc) ==
  LET impedance == reflectionCoefficientToImpedance(rc)
  IN  IF ~impedance.def THEN Undefined
      ELSE Some(Abs(Div(impedance.v[2], impedance.v[1])))

\* calcs.reflectionCoefficientToAdmittance on a Point <<x, y>>
reflectionCoefficientToAdmittance(p) ==
  LET y == rflCoeffToAdmittance(ComplexFrom(p[1], p[2]))
  IN  IF y.def THEN Some(<<y.v.real, y.v.imag>>) ELSE Undefined

\* The two components of the Point are scaled in place, one after the other;
\* z0 is the Z0 of the Smith object.
calcImpedance(rc, z0) ==
  LET impedance == reflectionCoefficientToImpedance(rc)
  IN  IF ~impedance.def THEN Undefined
      ELSE LET first == [impedance.v EXCEPT ![1] = Mul(@, z0)]
           IN  Some([first EXCEPT ![2] = Mul(@, z0)])

\* in mS
calcAdmittance(rc, z0) ==
  LET admittance == reflectionCoefficientToAdmittance(rc)
      scale      == Mul(Div(One, z0), Num(1000, 1))
  IN  IF ~admittance.def THEN Undefined
      ELSE LET first == [admittance.v EXCEPT ![1] = Mul(@, scale)]
           IN  Some([first EXCEPT ![2] = Mul(@, scale)])

\* ------------------------------------------------------------------------
\* Inputs
GridDen        == 3
MaxParam       == 4
MaxCircleParam == 4

Grid == {Num(k, GridDen) : k \in -GridDen .. GridDen}

\* real values within 1e-5 of 1: 1 - 1e-5, 1 - 5e-6, 1 - 2e-6
NearOne == {Num(99999, 100000), Num(199999, 200000), Num(499999, 500000)}

GridPoints == {ComplexFrom(x, y) : x \in Grid, y \in Grid}

Points ==
  GridPoints
    \cup {ComplexFrom(x, Zero) : x \in NearOne}
    \cup {ComplexFrom(Neg(x), Zero) : x \in NearOne}
    \cup {ComplexFrom(Num(199999, 200000), Num(1, 200000)),
          ComplexFrom(Num(-199999, 200000), Num(-1, 200000))}

Params == {Num(k, 2) : k \in -MaxParam .. MaxParam}

Circles ==
  {resistanceCircle(Num(k, 2)) : k \in 0 .. MaxCircleParam}
    \cup {reactanceCircle(Num(k, 2)) : k \in 1 .. MaxCircleParam}
    \cup {constQCircle(One),
          [p |-> <<Num(3, 1), Zero>>, r |-> One],
          [p |-> <<Two, Zero>>, r |-> One],
          [p |-> <<Zero, Zero>>, r |-> Num(1, 2)]}

Frequencies ==
  {Zero, One, Two, Neg(Two), Num(1, 2), Num(1000, 1),
   Num(SpeedOfLight, 1)}

\* the Points <<x, y>> of a set of complex numbers
PointsOf(S) == {<<c.real, c.imag>> : c \in S}

UnitSquare == {ComplexFrom(x, y) : x \in {Zero, One}, y \in {Zero, One}}

ComponentFrequencies == {One, Num(1000, 1)}

Swrs == {Num(k, 2) : k \in -2 .. 2 * MaxParam}

Reactances == {Num(k, 2) : k \in -MaxParam .. MaxParam}

\* values given to the engine's public field Z0
Z0Values == {DefaultZ0, 75}

\* reflection coefficients of loads: the match, a point inside the disk, the
\* open circuit (1, 0) and two more points of the unit circle
LoadPoints ==
  {ComplexFrom(Zero, Zero), ComplexFrom(Num(1, 3), Num(-2, 3)),
   ComplexFrom(One, Zero), ComplexFrom(Zero, One), ComplexFrom(Neg(One), Zero)}

\* the loads to which a second impedance or admittance is added after a first
ChainPoints == {ComplexFrom(Zero, Zero), ComplexFrom(Num(1, 3), Num(-2, 3))}

\* a reflection coefficient far outside the unit disk
FarPoint == ComplexFrom(Num(1000000, 1), Zero)

MaxSteps == 1

\* impedances in ohm: resistances in steps of 50, a capacitive impedance and a
\* resistance of 100 megohm
Impedances ==
  {ComplexFrom(Num(50 * k, 1), Zero) : k \in -MaxSteps .. MaxSteps}
    \cup {ComplexFrom(Num(25, 1), Num(-75, 1)),
          ComplexFrom(Num(100000000, 1), Zero)}

\* admittances in siemens: conductances in steps of 20 mS, an admittance with
\* a susceptance and a conductance of 10000 S
Admittances ==
  {ComplexFrom(Num(k, 50), Zero) : k \in -MaxSteps .. MaxSteps}
    \cup {ComplexFrom(Num(1, 100), Num(-1, 50)),
          ComplexFrom(Num(10000, 1), Zero)}

\* ------------------------------------------------------------------------
\* State: the engine's reference impedance, the last call made on the engine
\* (operation, arguments, result) and the call before it when the last call
\* took its arguments from that call's result, or when it repeated that call
\* (normalize, denormalize, calcImpedance or calcAdmittance on the same
\* argument).
\* The record of a call of an operation that reads Z0 also holds the value
\* Z0 had when the call was made.
VARIABLES Z0, call, prev

vars == <<Z0, call, prev>>

NoCall == [op |-> "none", arg |-> <<>>, res |-> <<>>]

Init ==
  /\ Z0 = DefaultZ0
  /\ call = NoCall
  /\ prev = NoCall

Called(op, arg, res) == [op |-> op, arg |-> arg, res |-> res]

\* One action per operation: the operation is called on the given arguments
\* and returns res.  `from` is the call whose result the arguments were taken
\* from, NoCall when the caller supplied them.
CallRflCoeffToImpedance(c, res) ==
  /\ call' = Called("rflCoeffToImpedance", <<c>>, res)
  /\ prev' = NoCall
  /\ UNCHANGED Z0

CallImpedanceToRflCoeff(c, res, from) ==
  /\ call' = Called("impedanceToRflCoeff", <<c>>, res)
  /\ prev' = from
  /\ UNCHANGED Z0

CallRflCoeffToAdmittance(c, res) ==
  /\ call' = Called("rflCoeffToAdmittance", <<c>>, res)
  /\ prev' = NoCall
  /\ UNCHANGED Z0

CallAdmittanceToRflCoeff(c, res, from) ==
  /\ call' = Called("admittanceToRflCoeff", <<c>>, res)
  /\ prev' = from
  /\ UNCHANGED Z0

CallRflCoeffToQ(rc, res) ==
  /\ call' = Called("rflCoeffToQ", <<rc>>, res)
  /\ prev' = NoCall
  /\ UNCHANGED Z0

CallGetQ(rc, res) ==
  /\ call' = Called("getQ", <<rc>>, res)
  /\ prev' = NoCall
  /\ UNCHANGED Z0

CallResistanceCircle(n, res) ==
  /\ call' = Called("resistanceCircle", <<n>>, res)
  /\ prev' = NoCall
  /\ UNCHANGED Z0

CallReactanceCircle(n, res) ==
  /\ call' = Called("reactanceCircle", <<n>>, res)
  /\ prev' = NoCall
  /\ UNCHANGED Z0

CallConductanceCircle(n, res) ==
  /\ call' = Called("conductanceCircle", <<n>>, res)
  /\ prev' = NoCall
  /\ UNCHANGED Z0

CallSusceptanceCircle(n, res) ==
  /\ call' = Called("susceptanceCircle", <<n>>, res)
  /\ prev' = NoCall
  /\ UNCHANGED Z0

CallConstQCircle(q, res) ==
  /\ call' = Called("constQCircle", <<q>>, res)
  /\ prev' = NoCall
  /\ UNCHANGED Z0

CallRflCoeffToSwr(rc, res, from) ==
  /\ call' = Called("rflCoeffToSwr", <<rc>>, res)
  /\ prev' = from
  /\ UNCHANGED Z0

CallSwrToRflCoeffEOrI(swr, res, from) ==
  /\ call' = Called("swrToRflCoeffEOrI", <<swr>>, res)
  /\ prev' = from
  /\ UNCHANGED Z0

CallCircleCircleIntersection(c1, c2, res) ==
  /\ call' = Called("circleCircleIntersection", <<c1, c2>>, res)
  /\ prev' = NoCall
  /\ UNCHANGED Z0

CallIsPointWithinCircle(p, c, res, from) ==
  /\ call' = Called("isPointWithinCircle", <<p, c>>, res)
  /\ prev' = from
  /\ UNCHANGED Z0

CallWaveLengthFromFrequency(frequency, res) ==
  /\ call' = Called("waveLengthFromFrequency", <<frequency>>, res)
  /\ prev' = NoCall
  /\ UNCHANGED Z0

CallFrequencyFromWaveLength(waveLength, res, from) ==
  /\ call' = Called("frequencyFromWaveLength", <<waveLength>>, res)
  /\ prev' = from
  /\ UNCHANGED Z0

CallReactanceToCapacitance(x, f, res) ==
  /\ call' = Called("reactanceToCapacitance", <<x, f>>, res)
  /\ prev' = NoCall
  /\ UNCHANGED Z0

CallReactanceToInductance(x, f, res) ==
  /\ call' = Called("reactanceToInductance", <<x, f>>, res)
  /\ prev' = NoCall
  /\ UNCHANGED Z0

CallGetReactanceComponentValue(p, f, res) ==
  /\ call' = Called("getReactanceComponentValue", <<p, f>>, res)
  /\ prev' = NoCall
  /\ UNCHANGED Z0

\* The caller assigns the public field Z0.  In the actions of the operations
\* that read Z0, z is the value the operation finds in it.
SetZ0(z) ==
  /\ Z0' = z
  /\ UNCHANGED <<call, prev>>

CalledAt(op, arg, res) == [op |-> op, arg |-> arg, z0 |-> Z0, res |-> res]

\* the last call, when it was a call of op on arg
Repeated(op, arg) == IF call.op = op /\ call.arg = arg THEN call ELSE NoCall

CallNormalize(c, z, res) ==
  /\ Z0 = z
  /\ call' = CalledAt("normalize", <<c>>, res)
  /\ prev' = Repeated("normalize", <<c>>)
  /\ UNCHANGED Z0

CallDenormalize(c, z, res) ==
  /\ Z0 = z
  /\ call' = CalledAt("denormalize", <<c>>, res)
  /\ prev' = Repeated("denormalize", <<c>>)
  /\ UNCHANGED Z0

CallAddImpedance(rc, imp, z, res, from) ==
  /\ Z0 = z
  /\ call' = CalledAt("addImpedance", <<rc, imp>>, res)
  /\ prev' = from
  /\ UNCHANGED Z0

CallAddAdmittance(rc, adm, z, res, from) ==
  /\ Z0 = z
  /\ call' = CalledAt("addAdmittance", <<rc, adm>>, res)
  /\ prev' = from
  /\ UNCHANGED Z0

CallCalcImpedance(rc, res) ==
  /\ call' = CalledAt("calcImpedance", <<rc>>, res)
  /\ prev' = Repeated("calcImpedance", <<rc>>)
  /\ UNCHANGED Z0

CallCalcAdmittance(rc, res) ==
  /\ call' = CalledAt("calcAdmittance", <<rc>>, res)
  /\ prev' = Repeated("calcAdmittance", <<rc>>)
  /\ UNCHANGED Z0

Next ==
  \/ \E c \in Points : CallRflCoeffToImpedance(c, rflCoeffToImpedance(c))
  \/ \E c \in Points : CallImpedanceToRflCoeff(c, impedanceToRflCoeff(c), NoCall)
  \/ /\ call.op = "rflCoeffToImpedance"
     /\ call.res.def
     /\ CallImpedanceToRflCoeff(call.res.v, impedanceToRflCoeff(call.res.v), call)
  \/ \E c \in Points : CallRflCoeffToAdmittance(c, rflCoeffToAdmittance(c))
  \/ \E c \in Points : CallAdmittanceToRflCoeff(c, admittanceToRflCoeff(c), NoCall)
  \/ /\ call.op = "rflCoeffToAdmittance"
     /\ call.res.def
     /\ CallAdmittanceToRflCoeff(call.res.v, admittanceToRflCoeff(call.res.v), call)
  \/ \E rc \in Points : CallRflCoeffToQ(rc, rflCoeffToQ(rc))
  \/ \E rc \in PointsOf(Points) : CallGetQ(rc, getQ(rc))
  \/ \E n \in Params : CallResistanceCircle(n, resistanceCircle(n))
  \/ \E n \in Params : CallReactanceCircle(n, reactanceCircle(n))
  \/ \E n \in Params : CallConductanceCircle(n, conductanceCircle(n))
  \/ \E n \in Params : CallSusceptanceCircle(n, susceptanceCircle(n))
  \/ \E q \in Params : CallConstQCircle(q, constQCircle(q))
  \/ \E rc \in GridPoints : CallRflCoeffToSwr(rc, rflCoeffToSwr(rc), NoCall)
  \/ /\ call.op = "swrToRflCoeffEOrI"
     /\ CallRflCoeffToSwr(ComplexFrom(call.res, Zero),
                          rflCoeffToSwr(ComplexFrom(call.res, Zero)), call)
  \/ \E swr \in Swrs : CallSwrToRflCoeffEOrI(swr, swrToRflCoeffEOrI(swr), NoCall)
  \/ /\ call.op = "rflCoeffToSwr"
     /\ CallSwrToRflCoeffEOrI(call.res, swrToRflCoeffEOrI(call.res), call)
  \/ \E c1 \in Circles, c2 \in Circles :
       CallCircleCircleIntersection(c1, c2, circleCircleIntersection(c1, c2))
  \/ \E p \in PointsOf(UnitSquare), c \in Circles :
       CallIsPointWithinCircle(p, c, isPointWithinCircle(p, c), NoCall)
  \/ /\ call.op = "circleCircleIntersection"
     /\ \E i \in 1 .. Len(call.res), j \in 1 .. 2 :
          CallIsPointWithinCircle(call.res[i], call.arg[j],
                                  isPointWithinCircle(call.res[i], call.arg[j]), call)
  \/ \E f \in Frequencies : CallWaveLengthFromFrequency(f, waveLengthFromFrequency(f))
  \/ \E w \in Frequencies : CallFrequencyFromWaveLength(w, frequencyFromWaveLength(w), NoCall)
  \/ /\ call.op = "waveLengthFromFrequency"
     /\ CallFrequencyFromWaveLength(call.res, frequencyFromWaveLength(call.res), call)
  \/ \E x \in Reactances, f \in ComponentFrequencies :
       CallReactanceToCapacitance(x, f, reactanceToCapacitance(x, f))
  \/ \E x \in Reactances, f \in ComponentFrequencies :
       CallReactanceToInductance(x, f, reactanceToInductance(x, f))
  \/ \E p \in PointsOf(GridPoints), f \in ComponentFrequencies :
       CallGetReactanceComponentValue(p, f, getReactanceComponentValue(p, f))

Spec == Init /\ [][Next]_vars

\* The engine with its Z0 assigned by the caller between calls.  Every
\* operation is called; those that do not read Z0 on a few arguments only.
SomeParams == {One, Neg(Two)}

SomeCircles == {resistanceCircle(One), reactanceCircle(One)}

NextZ0 ==
  \/ \E z \in Z0Values : SetZ0(z)
  \/ \E z \in Z0Values, c \in Impedances :
       CallNormalize(c, z, normalize(c, Num(z, 1)))
  \/ \E z \in Z0Values, c \in LoadPoints :
       CallDenormalize(c, z, denormalize(c, Num(z, 1)))
  \/ \E z \in Z0Values, rc \in LoadPoints \cup {FarPoint}, imp \in Impedances :
       CallAddImpedance(rc, imp, z, addImpedance(rc, imp, Num(z, 1)), NoCall)
  \/ \E z \in Z0Values, imp \in Impedances :
       /\ Z0 = z
       /\ call.op = "addImpedance"
       /\ call.arg[1] \in ChainPoints
       /\ call.res # Undefined
       /\ CallAddImpedance(call.res.v, imp, z,
                         addImpedance(call.res.v, imp, Num(z, 1)), call)
  \/ \E z \in Z0Values, rc \in LoadPoints \cup {FarPoint}, adm \in Admittances :
       CallAddAdmittance(rc, adm, z, addAdmittance(rc, adm, Num(z, 1)), NoCall)
  \/ \E z \in Z0Values, adm \in Admittances :
       /\ Z0 = z
       /\ call.op = "addAdmittance"
       /\ call.arg[1] \in ChainPoints
       /\ call.res # Undefined
       /\ CallAddAdmittance(call.res.v, adm, z,
                          addAdmittance(call.res.v, adm, Num(z, 1)), call)
  \/ \E rc \in PointsOf(LoadPoints) :
       CallCalcImpedance(rc, calcImpedance(rc, Num(SmithZ0, 1)))
  \/ \E rc \in PointsOf(LoadPoints) :
       CallCalcAdmittance(rc, calcAdmittance(rc, Num(SmithZ0, 1)))
  \/ \E c \in LoadPoints : CallRflCoeffToImpedance(c, rflCoeffToImpedance(c))
  \/ \E c \in LoadPoints : CallImpedanceToRflCoeff(c, impedanceToRflCoeff(c), NoCall)
  \/ \E c \in LoadPoints : CallRflCoeffToAdmittance(c, rflCoeffToAdmittance(c))
  \/ \E c \in LoadPoints : CallAdmittanceToRflCoeff(c, admittanceToRflCoeff(c), NoCall)
  \/ \E rc \in LoadPoints : CallRflCoeffToQ(rc, rflCoeffToQ(rc))
  \/ \E rc \in PointsOf(LoadPoints) : CallGetQ(rc, getQ(rc))
  \/ \E n \in SomeParams : CallResistanceCircle(n, resistanceCircle(n))
  \/ \E n \in SomeParams : CallReactanceCircle(n, reactanceCircle(n))
  \/ \E n \in SomeParams : CallConductanceCircle(n, conductanceCircle(n))
  \/ \E n \in SomeParams : CallSusceptanceCircle(n, susceptanceCircle(n))
  \/ \E q \in SomeParams : CallConstQCircle(q, constQCircle(q))
  \/ \E rc \in UnitSquare : CallRflCoeffToSwr(rc, rflCoeffToSwr(rc), NoCall)
  \/ \E swr \in SomeParams : CallSwrToRflCoeffEOrI(swr, swrToRflCoeffEOrI(swr), NoCall)
  \/ \E c1 \in SomeCircles, c2 \in SomeCircles :
       CallCircleCircleIntersection(c1, c2, circleCircleIntersection(c1, c2))
  \/ \E p \in PointsOf(UnitSquare), c \in SomeCircles :
       CallIsPointWithinCircle(p, c, isPointWithinCircle(p, c), NoCall)
  \/ \E f \in SomeParams : CallWaveLengthFromFrequency(f, waveLengthFromFrequency(f))
  \/ \E w \in SomeParams : CallFrequencyFromWaveLength(w, frequencyFromWaveLength(w), NoCall)
  \/ \E x \in SomeParams, f \in ComponentFrequencies :
       CallReactanceToCapacitance(x, f, reactanceToCapacitance(x, f))
  \/ \E x \in SomeParams, f \in ComponentFrequencies :
       CallReactanceToInductance(x, f, reactanceToInductance(x, f))
  \/ \E p \in PointsOf(UnitSquare), f \in ComponentFrequencies :
       CallGetReactanceComponentValue(p, f, getReactanceComponentValue(p, f))

SpecZ0 == Init /\ [][NextZ0]_vars

\* ------------------------------------------------------------------------
\* Properties

Transforms ==
  {"rflCoeffToImpedance", "impedanceToRflCoeff", "rflCoeffToAdmittance",
   "admittanceToRflCoeff"}

\* the denominator d of a bilinear transform on the complex number c
Denominator(op, c) ==
  IF op = "rflCoeffToImpedance"
  THEN Add(Mul(Sub(One, c.real), Sub(One, c.real)), Mul(c.imag, c.imag))
  ELSE Add(Mul(Add(c.real, One), Add(c.real, One)), Mul(c.imag, c.imag))

\* |c| < 1 - 1e-6, compared by squares
InsideDisk(c) ==
  Lt(Add(Mul(c.real, c.real), Mul(c.imag, c.imag)),
     Mul(Num(999999, 1000000), Num(999999, 1000000)))

\* C1: each of the four bilinear transforms returns no value exactly when its
\* denominator d has |d| < epsilon = 1e-10, and on every other (finite) input
\* returns a complex value with two finite components; rflCoeffToImpedance on
\* (1, 0) and rflCoeffToAdmittance on (-1, 0) return no value.
C1_SingularityGuard ==
  call.op \in Transforms =>
    LET c == call.arg[1]
    IN  /\ call.res = Undefined <=> Lt(Abs(Denominator(call.op, c)), epsilon)
        /\ call.res # Undefined =>
             /\ call.res.def
             /\ IsFinite(call.res.v.real)
             /\ IsFinite(call.res.v.imag)
        /\ call.op = "rflCoeffToImpedance" /\ c = ComplexFrom(One, Zero)
             => call.res = Undefined
        /\ call.op = "rflCoeffToAdmittance" /\ c = ComplexFrom(Neg(One), Zero)
             => call.res = Undefined

\* C1 witness: rflCoeffToImpedance on (1 - 1e-5, 0), where d = 1e-10 is not
\* below epsilon, has returned a value.
C1_Witness ==
  /\ call.op = "rflCoeffToImpedance"
  /\ call.arg[1] = ComplexFrom(Num(99999, 100000), Zero)
  /\ Denominator(call.op, call.arg[1]) = epsilon
  /\ call.res.def

\* C2 as stated: for every reflection coefficient G with |G| < 1 - 1e-6,
\* rflCoeffToImpedance(G) returns a value z, and impedanceToRflCoeff(z) returns
\* a value equal to G.
C2_RoundTripInsideDisk ==
  /\ call.op = "rflCoeffToImpedance" /\ InsideDisk(call.arg[1]) => call.res.def
  /\ call.op = "impedanceToRflCoeff" /\ prev.op = "rflCoeffToImpedance"
       /\ InsideDisk(prev.arg[1])
       => call.res = Some(prev.arg[1])

\* C2 amended: for every reflection coefficient G with |G| < 1 - 1e-6 and
\* |1 - G|^2 >= 1e-10 (outside the guard around G = 1), rflCoeffToImpedance(G)
\* returns a value z, and impedanceToRflCoeff(z) returns a value equal to G.
C2_RoundTripOutsideGuard ==
  /\ call.op = "rflCoeffToImpedance" /\ InsideDisk(call.arg[1])
       /\ Le(epsilon, Denominator(call.op, call.arg[1]))
       => call.res.def
  /\ call.op = "impedanceToRflCoeff" /\ prev.op = "rflCoeffToImpedance"
       /\ InsideDisk(prev.arg[1])
       => call.res = Some(prev.arg[1])

\* C2 witness: the round trip of (1/3, -2/3), inside the disk and outside the
\* guard, has returned (1/3, -2/3).
C2_Witness ==
  /\ call.op = "impedanceToRflCoeff"
  /\ prev.op = "rflCoeffToImpedance"
  /\ prev.arg[1] = ComplexFrom(Num(1, 3), Num(-2, 3))
  /\ InsideDisk(prev.arg[1])
  /\ call.res = Some(prev.arg[1])

\* C3 as stated: for every reflection coefficient G with |G| < 1 - 1e-6,
\* rflCoeffToAdmittance(G) returns a value y, and admittanceToRflCoeff(y)
\* returns a value equal to G.
C3_RoundTripInsideDisk ==
  /\ call.op = "rflCoeffToAdmittance" /\ InsideDisk(call.arg[1]) => call.res.def
  /\ call.op = "admittanceToRflCoeff" /\ prev.op = "rflCoeffToAdmittance"
       /\ InsideDisk(prev.arg[1])
       => call.res = Some(prev.arg[1])

\* C3 amended: for every reflection coefficient G with |G| < 1 - 1e-6 and
\* |1 + G|^2 >= 1e-10 (outside the guard around G = -1), rflCoeffToAdmittance(G)
\* returns a value y, and admittanceToRflCoeff(y) returns a value equal to G.
C3_RoundTripOutsideGuard ==
  /\ call.op = "rflCoeffToAdmittance" /\ InsideDisk(call.arg[1])
       /\ Le(epsilon, Denominator(call.op, call.arg[1]))
       => call.res.def
  /\ call.op = "admittanceToRflCoeff" /\ prev.op = "rflCoeffToAdmittance"
       /\ InsideDisk(prev.arg[1])
       => call.res = Some(prev.arg[1])

\* C3 witness: the admittance round trip of (-1 + 1e-5, 0), on the edge of the
\* guard, has returned (-1 + 1e-5, 0).
C3_Witness ==
  /\ call.op = "admittanceToRflCoeff"
  /\ prev.op = "rflCoeffToAdmittance"
  /\ prev.arg[1] = ComplexFrom(Num(-99999, 100000), Zero)
  /\ InsideDisk(prev.arg[1])
  /\ call.res = Some(prev.arg[1])

\* C4 as stated: the Q computation (rflCoeffToQ, Smith.getQ) returns either no
\* value or a finite non-negative number; in particular it does not return
\* Infinity or NaN when the impedance has zero real part.
C4_QNoneOrFinite ==
  call.op \in {"rflCoeffToQ", "getQ"} =>
    \/ call.res = Undefined
    \/ /\ call.res.def
       /\ IsFinite(call.res.v)
       /\ Le(Zero, call.res.v)

\* C5 as stated: waveLengthFromFrequency(f) is c / f and
\* frequencyFromWaveLength(w) is c / w for every non-zero input, and
\* frequencyFromWaveLength(waveLengthFromFrequency(f)) = f for every f # 0.
C5_WaveLengthFrequencyInverse ==
  /\ call.op = "waveLengthFromFrequency" /\ call.arg[1] # Zero
       => call.res = Div(Num(SpeedOfLight, 1), call.arg[1])
  /\ call.op = "frequencyFromWaveLength" /\ call.arg[1] # Zero
       => call.res = Div(Num(SpeedOfLight, 1), call.arg[1])
  /\ call.op = "frequencyFromWaveLength" /\ prev.op = "waveLengthFromFrequency"
       /\ prev.arg[1] # Zero
       => call.res = prev.arg[1]

\* the circle of the generator table for a generator and its parameter
TableCircle(op, n) ==
  CASE op = "resistanceCircle" ->
         [p |-> <<Div(n, Add(n, One)), Zero>>, r |-> Div(One, Add(n, One))]
    [] op = "reactanceCircle" ->
         [p |-> <<One, Div(One, n)>>, r |-> Abs(Div(One, n))]
    [] op = "conductanceCircle" ->
         [p |-> <<Neg(Div(n, Add(n, One))), Zero>>, r |-> Div(One, Add(n, One))]
    [] op = "susceptanceCircle" ->
         [p |-> <<Neg(One), Neg(Div(One, n))>>, r |-> Abs(Div(One, n))]
    [] op = "constQCircle" ->
         [p |-> <<Zero, Div(One, n)>>, r |-> Sqrt(Add(One, Div(One, Mul(n, n))))]

\* the parameter is in the stated domain of the generator
InDomain(op, n) ==
  IF op \in {"resistanceCircle", "conductanceCircle"} THEN n # Neg(One) ELSE n # Zero

\* C6 as stated: for every parameter in the domain of a circle generator,
\* negative ones included, the returned circle has the center and radius of the
\* generator table and its radius is non-negative; resistanceCircle(0) is the
\* unit circle, resistanceCircle(1) is center (0.5, 0) radius 0.5 and
\* reactanceCircle(1) is center (1, 1) radius 1.
C6_GeneratorTable ==
  /\ call.op \in {"resistanceCircle", "reactanceCircle", "conductanceCircle",
                  "susceptanceCircle", "constQCircle"}
       /\ InDomain(call.op, call.arg[1])
       => /\ call.res = TableCircle(call.op, call.arg[1])
          /\ Le(Zero, call.res.r)
  /\ call.op = "resistanceCircle" /\ call.arg[1] = Zero
       => call.res = [p |-> <<Zero, Zero>>, r |-> One]
  /\ call.op = "resistanceCircle" /\ call.arg[1] = One
       => call.res = [p |-> <<Num(1, 2), Zero>>, r |-> Num(1, 2)]
  /\ call.op = "reactanceCircle" /\ call.arg[1] = One
       => call.res = [p |-> <<One, One>>, r |-> One]

\* the squared distance of the points p and q
DistanceSquared(p, q) ==
  Add(Mul(Sub(p[1], q[1]), Sub(p[1], q[1])), Mul(Sub(p[2], q[2]), Sub(p[2], q[2])))

\* the circles intersect: positive radii, center distance dl # 0 and
\* |r1 - r2| <= dl <= r1 + r2, compared by squares
Intersecting(c1, c2) ==
  /\ Lt(Zero, c1.r)
  /\ Lt(Zero, c2.r)
  /\ c1.p # c2.p
  /\ Le(Mul(Sub(c1.r, c2.r), Sub(c1.r, c2.r)), DistanceSquared(c1.p, c2.p))
  /\ Le(DistanceSquared(c1.p, c2.p), Mul(Add(c1.r, c2.r), Add(c1.r, c2.r)))

OnCircle(p, c) == DistanceSquared(p, c.p) = Mul(c.r, c.r)

\* C7: for two circles that intersect, circleCircleIntersection returns two
\* points, each on both circles, and isPointWithinCircle holds of each of them
\* and each circle; for resistanceCircle(1) and reactanceCircle(1) the points
\* are (1, 0) and (0.2, 0.4).
C7_IntersectionOnBothCircles ==
  /\ call.op = "circleCircleIntersection" /\ Intersecting(call.arg[1], call.arg[2])
       => /\ Len(call.res) = 2
          /\ \A i \in 1 .. 2, j \in 1 .. 2 : OnCircle(call.res[i], call.arg[j])
  /\ call.op = "circleCircleIntersection"
       /\ call.arg = <<resistanceCircle(One), reactanceCircle(One)>>
       => {call.res[1], call.res[2]} = {<<One, Zero>>, <<Num(1, 5), Num(2, 5)>>}
  /\ call.op = "isPointWithinCircle" /\ prev.op = "circleCircleIntersection"
       /\ Intersecting(prev.arg[1], prev.arg[2])
       => call.res = TRUE

\* C7 witness: the intersection of resistanceCircle(1) and reactanceCircle(1)
\* has been computed and its first point found within reactanceCircle(1).
C7_Witness ==
  /\ call.op = "isPointWithinCircle"
  /\ prev.op = "circleCircleIntersection"
  /\ prev.arg = <<resistanceCircle(One), reactanceCircle(One)>>
  /\ Intersecting(prev.arg[1], prev.arg[2])
  /\ call.arg = <<prev.res[1], prev.arg[2]>>
  /\ call.res = TRUE

\* C8 as stated: for two circles that do not intersect (center distance above
\* r1 + r2, below |r1 - r2|, or 0), circleCircleIntersection returns no point
\* with a NaN or infinite coordinate.
C8_NoNaNPoints ==
  call.op = "circleCircleIntersection" /\ ~Intersecting(call.arg[1], call.arg[2])
    => \A i \in 1 .. Len(call.res) :
         IsFinite(call.res[i][1]) /\ IsFinite(call.res[i][2])

\* |c|^2
AbsSquared(c) == Add(Mul(c.real, c.real), Mul(c.imag, c.imag))

\* C9: for every finite swr >= 1, rflCoeffToSwr of (swrToRflCoeffEOrI(swr), 0) is swr;
\* for every G with |G| < 1, swrToRflCoeffEOrI(rflCoeffToSwr(G)) is |G|,
\* rflCoeffToSwr(G) >= 1, and rflCoeffToSwr((0, 0)) = 1.
C9_SwrInverse ==
  /\ call.op = "rflCoeffToSwr" /\ prev.op = "swrToRflCoeffEOrI"
       /\ IsFinite(prev.arg[1]) /\ Le(One, prev.arg[1])
       => call.res = prev.arg[1]
  /\ call.op = "swrToRflCoeffEOrI" /\ prev.op = "rflCoeffToSwr"
       /\ Lt(AbsSquared(prev.arg[1]), One)
       => /\ Le(Zero, call.res)
          /\ Mul(call.res, call.res) = AbsSquared(prev.arg[1])
  /\ call.op = "rflCoeffToSwr" /\ Lt(AbsSquared(call.arg[1]), One)
       => Le(One, call.res)
  /\ call.op = "rflCoeffToSwr" /\ call.arg[1] = ComplexFrom(Zero, Zero)
       => call.res = One

\* C9 witness: swrToRflCoeffEOrI on the SWR of (1/3, -2/3) has returned a
\* magnitude that is not rational.
C9_Witness ==
  /\ call.op = "swrToRflCoeffEOrI"
  /\ prev.op = "rflCoeffToSwr"
  /\ prev.arg[1] = ComplexFrom(Num(1, 3), Num(-2, 3))
  /\ ~IsRational(call.res)
  /\ Mul(call.res, call.res) = Num(5, 9)

\* C10 as stated: capacitance is undefined for every reactance X >= 0 and
\* inductance for every X <= 0, so for X # 0 exactly one of the two is defined
\* and for X = 0 neither; getReactanceComponentValue reports neither an
\* inductance nor a capacitance when the reactance is 0.
C10_SignGuards ==
  /\ call.op = "reactanceToCapacitance"
       => (call.res = Null <=> Le(Zero, call.arg[1]))
  /\ call.op = "reactanceToInductance"
       => (call.res = Null <=> Le(call.arg[1], Zero))
  /\ call.op = "getReactanceComponentValue"
       => LET z == reflectionCoefficientToImpedance(call.arg[1])
          IN  z.def /\ z.v[2] = Zero => call.res.text \notin {"F", "H"}
\* the operations that read Z0: those of the engine read its field Z0, those
\* of Smith the Z0 of the Smith object
Z0Ops ==
  {"normalize", "denormalize", "addImpedance", "addAdmittance", "calcImpedance",
   "calcAdmittance"}

\* c with both components multiplied by x
Scaled(c, x) == ComplexFrom(Mul(c.real, x), Mul(c.imag, x))

\* the result recorded in r is the one its operation has on the arguments of r
\* when Z0 has the value recorded in r
ResultOfArgsAndZ0(r) ==
  LET z0 == Num(r.z0, 1)
      sz == Num(SmithZ0, 1)
  IN  CASE r.op = "normalize" -> Scaled(r.res, z0) = r.arg[1]
        [] r.op = "denormalize" -> r.res = Scaled(r.arg[1], z0)
        [] r.op = "addImpedance" ->
             LET Z == rflCoeffToImpedance(r.arg[1])
             IN  r.res = IF Z = Undefined THEN Undefined
                         ELSE impedanceToRflCoeff(
                                ComplexAdd(Z.v, Scaled(r.arg[2], Div(One, z0))))
        [] r.op = "addAdmittance" ->
             LET Y == rflCoeffToAdmittance(r.arg[1])
             IN  r.res = IF Y = Undefined THEN Undefined
                         ELSE admittanceToRflCoeff(
                                ComplexAdd(Y.v, Scaled(r.arg[2], z0)))
        [] r.op = "calcImpedance" ->
             LET z == reflectionCoefficientToImpedance(r.arg[1])
             IN  r.res = IF z = Undefined THEN Undefined
                         ELSE Some(<<Mul(z.v[1], sz), Mul(z.v[2], sz)>>)
        [] r.op = "calcAdmittance" ->
             LET y == reflectionCoefficientToAdmittance(r.arg[1])
             IN  r.res = IF y = Undefined THEN Undefined
                         ELSE Some(<<Div(Mul(y.v[1], Num(1000, 1)), sz),
                                     Div(Mul(y.v[2], Num(1000, 1)), sz)>>)

Sum(c, e) == ComplexFrom(Add(c.real, e.real), Add(c.imag, e.imag))

\* the transform addImpedance or addAdmittance starts with
TransformOf(op, rc) ==
  IF op = "addImpedance" THEN rflCoeffToImpedance(rc) ELSE rflCoeffToAdmittance(rc)

\* the transform addImpedance or addAdmittance ends with
BackTransformOf(op, c) ==
  IF op = "addImpedance" THEN impedanceToRflCoeff(c) ELSE admittanceToRflCoeff(c)

\* addImpedance or addAdmittance of x to rc at the reference impedance z0
AddOf(op, rc, x, z0) ==
  IF op = "addImpedance" THEN addImpedance(rc, x, Num(z0, 1))
  ELSE addAdmittance(rc, x, Num(z0, 1))

\* the last call added call.arg[2] to the result of the call before it, which
\* added prev.arg[2] to prev.arg[1], Z0 being the same in both
AddedTwice ==
  /\ call.op \in {"addImpedance", "addAdmittance"}
  /\ prev.op = call.op
  /\ prev.res # Undefined
  /\ call.arg[1] = prev.res.v
  /\ prev.z0 = call.z0

\* C12 as stated: whenever addImpedance(rc, a) returns a value,
\* addImpedance(addImpedance(rc, a), b) equals addImpedance(rc, a + b);
\* addImpedance(rc, 0) returns rc for every rc at which rflCoeffToImpedance is
\* defined; addImpedance returns no value whenever rflCoeffToImpedance(rc) has
\* none; and the same for addAdmittance with rflCoeffToAdmittance.
C12_AddComposes ==
  /\ AddedTwice
       => call.res = AddOf(call.op, prev.arg[1], Sum(prev.arg[2], call.arg[2]), call.z0)
  /\ call.op \in {"addImpedance", "addAdmittance"}
       => LET t == TransformOf(call.op, call.arg[1])
          IN  /\ t = Undefined => call.res = Undefined
              /\ t # Undefined /\ call.arg[2] = ComplexFrom(Zero, Zero)
                   => call.res = Some(call.arg[1])

\* C12 amended: the composition holds whenever the reflection coefficient
\* returned by the first call is one at which the transform is defined (it is
\* outside the guard of rflCoeffToImpedance, or of rflCoeffToAdmittance), and
\* addImpedance(rc, 0) returns rc whenever rflCoeffToImpedance(rc) is a value
\* at which impedanceToRflCoeff is defined; the same for addAdmittance.
C12_AddComposesOutsideGuard ==
  /\ AddedTwice /\ TransformOf(call.op, call.arg[1]) # Undefined
       => call.res = AddOf(call.op, prev.arg[1], Sum(prev.arg[2], call.arg[2]), call.z0)
  /\ call.op \in {"addImpedance", "addAdmittance"}
       => LET t == TransformOf(call.op, call.arg[1])
          IN  /\ t = Undefined => call.res = Undefined
              /\ t # Undefined /\ call.arg[2] = ComplexFrom(Zero, Zero)
                   /\ BackTransformOf(call.op, t.v) # Undefined
                   => call.res = Some(call.arg[1])

\* C12 witness: at Z0 = 50, addImpedance of 50 ohm to the match returned
\* (1/3, 0), and addImpedance of 25 - 75j ohm to (1/3, 0) has returned the
\* value that addImpedance of 75 - 75j ohm to the match has.
C12_Witness ==
  /\ AddedTwice
  /\ call.op = "addImpedance"
  /\ call.z0 = DefaultZ0
  /\ prev.arg = <<ComplexFrom(Zero, Zero), ComplexFrom(Num(50, 1), Zero)>>
  /\ prev.res = Some(ComplexFrom(Num(1, 3), Zero))
  /\ call.arg[2] = ComplexFrom(Num(25, 1), Num(-75, 1))
  /\ call.res # Undefined
  /\ call.res = addImpedance(ComplexFrom(Zero, Zero),
                             ComplexFrom(Num(75, 1), Num(-75, 1)), Num(50, 1))
====
